---------------------------- MODULE Spec2Model ----------------------------
(***************************************************************************)
(* Shadow-tree classification and path lookup of title_info.py:            *)
(* build_shadow_trees walks a table of contents depth-first and files      *)
(* every qualifying node in the tree of its commentator;                   *)
(* search_shadow_trees walks every commentator's tree along a search path. *)
(*                                                                         *)
(* A Python dict is modelled as a function from key paths to values: the   *)
(* tree of one commentator maps the sequence of keys leading to a value to *)
(* that value, which is a dict, a str or a list of str.  The annotation    *)
(* keys "title", "path" and "type" live in the same dict as the path       *)
(* segments, as in the source.                                             *)
(***************************************************************************)
EXTENDS Naturals, Sequences, FiniteSets, TLC

VARIABLES toc, target_title, stack, shadow_trees, commentators, pc,
          visited, classified, log, search_path, search_pc, results

\* BookSelectionTab of book_selection.py
VARIABLES sel_toc, selected, reading_list, selected_he_to_en, files, hist

title_vars == <<toc, target_title, stack, shadow_trees, commentators, pc,
                visited, classified, log, search_path, search_pc, results>>
selection_vars == <<sel_toc, selected, reading_list, selected_he_to_en, files, hist>>

vars == <<toc, target_title, stack, shadow_trees, commentators, pc,
          visited, classified, log, search_path, search_pc, results,
          sel_toc, selected, reading_list, selected_he_to_en, files, hist>>

(***************************************************************************)
(* Bounds of the model.                                                    *)
(***************************************************************************)
\* largest number of nodes of a nested table of contents
MaxNodes == 3
\* longest search path tried by search_shadow_trees
MaxSearchLen == 2
\* largest number of items of the table of contents of the selection tab
MaxItems == 2
\* number of user operations on the selection tab
MaxOps == 4

(***************************************************************************)
(* Strings.  Python's substring test and lower() work on the characters of *)
(* a string; Chars spells every string the model uses.                     *)
(***************************************************************************)
Chars(s) ==
    CASE s = "" -> <<>>
      [] s = "X" -> <<"X">>
      [] s = "Y" -> <<"Y">>
      [] s = "A" -> <<"A">>
      [] s = "title" -> <<"t", "i", "t", "l", "e">>
      [] s = "path" -> <<"p", "a", "t", "h">>
      [] s = "type" -> <<"t", "y", "p", "e">>
      [] s = "Genesis" -> <<"G", "e", "n", "e", "s", "i", "s">>
      [] s = "Exodus" -> <<"E", "x", "o", "d", "u", "s">>
      [] s = "Commentary" -> <<"C", "o", "m", "m", "e", "n", "t", "a", "r", "y">>
      [] s = "Targum" -> <<"T", "a", "r", "g", "u", "m">>
      [] s = "Tanakh" -> <<"T", "a", "n", "a", "k", "h">>
      [] s = "Genesis Rabbah" -> <<"G", "e", "n", "e", "s", "i", "s", " ", "R", "a", "b", "b", "a", "h">>
      [] s = "modern" -> <<"m", "o", "d", "e", "r", "n">>
      [] s = "contemporary" -> <<"c", "o", "n", "t", "e", "m", "p", "o", "r", "a", "r", "y">>
      [] s = "21st-century" -> <<"2", "1", "s", "t", "-", "c", "e", "n", "t", "u", "r", "y">>
      [] s = "20th-century" -> <<"2", "0", "t", "h", "-", "c", "e", "n", "t", "u", "r", "y">>
      [] s = "Modern" -> <<"M", "o", "d", "e", "r", "n">>
      [] s = "Postmodernist" -> <<"P", "o", "s", "t", "m", "o", "d", "e", "r", "n", "i", "s", "t">>
      [] s = "CONTEMPORARY" -> <<"C", "O", "N", "T", "E", "M", "P", "O", "R", "A", "R", "Y">>
      [] s = "21st-Century" -> <<"2", "1", "s", "t", "-", "C", "e", "n", "t", "u", "r", "y">>
      [] s = "A 20th-century work" -> <<"A", " ", "2", "0", "t", "h", "-", "c", "e", "n", "t", "u", "r", "y", " ", "w", "o", "r", "k">>
      [] s = "20th century" -> <<"2", "0", "t", "h", " ", "c", "e", "n", "t", "u", "r", "y">>
      [] s = "Medieval" -> <<"M", "e", "d", "i", "e", "v", "a", "l">>

\* str.lower() on one character
LowerChar(c) ==
    CASE c = "A" -> "a"
      [] c = "C" -> "c"
      [] c = "E" -> "e"
      [] c = "G" -> "g"
      [] c = "M" -> "m"
      [] c = "N" -> "n"
      [] c = "O" -> "o"
      [] c = "P" -> "p"
      [] c = "R" -> "r"
      [] c = "T" -> "t"
      [] c = "X" -> "x"
      [] c = "Y" -> "y"
      [] OTHER -> c

\* str.lower() on the characters of a string
Lower(cs) == [i \in 1..Len(cs) |-> LowerChar(cs[i])]

\* Python's `a in b` for two strings, on their characters
SubstrChars(a, b) ==
    \E i \in 1..(Len(b) + 1) :
        /\ i + Len(a) - 1 <= Len(b)
        /\ \A j \in 1..Len(a) : b[i + j - 1] = a[j]

\* Python's `a in b` for two strings
IsSubstr(a, b) == SubstrChars(Chars(a), Chars(b))

\* Python's `x in l` for a list
InList(x, l) == \E i \in 1..Len(l) : l[i] = x

IsPrefix(p, q) == Len(p) <= Len(q) /\ SubSeq(q, 1, Len(p)) = p

(***************************************************************************)
(* Python values held in a shadow tree.                                    *)
(***************************************************************************)
Dict == [kind |-> "dict", s |-> "", l |-> <<>>]
Str(x) == [kind |-> "str", s |-> x, l |-> <<>>]
List(p) == [kind |-> "list", s |-> "", l |-> p]

\* the empty dict {}
EmptyTree == [q \in {} |-> Dict]

\* the value reached from the root of tree t by the keys at
NodeAt(t, at) == IF at = <<>> THEN Dict ELSE t[at]

\* d[k] = v on the dict at `at`: whatever was stored under k is replaced
DictSet(t, at, k, v) ==
    LET key == Append(at, k)
        keep == {q \in DOMAIN t : ~IsPrefix(key, q)}
    IN  [q \in keep \cup {key} |-> IF q = key THEN v ELSE t[q]]

\* Python's `seg in current_node`, by the type of current_node
PyIn(seg, t, at) ==
    LET n == NodeAt(t, at)
    IN  CASE n.kind = "dict" -> Append(at, seg) \in DOMAIN t
          [] n.kind = "str" -> IsSubstr(seg, n.s)
          [] n.kind = "list" -> InList(seg, n.l)

(***************************************************************************)
(* The per-item tests of search_contents.                                  *)
(***************************************************************************)
Keywords == {"modern", "contemporary", "21st-century", "20th-century"}

\* mutant: the short description is not lower-cased
ExcludedCaseSensitive(item) ==
    \E k \in Keywords : SubstrChars(Chars(k), Chars(item.enShortDesc))

\* line 66, 69: any(keyword in en_short_desc.lower() ...)
Excluded(item) ==
    \E k \in Keywords : SubstrChars(Chars(k), Lower(Chars(item.enShortDesc)))

\* mutant: the length of base_text_titles is not tested
IsSpecificAnyLength(item, t) == InList(t, item.base_text_titles)

\* line 73
IsSpecific(item, t) ==
    InList(t, item.base_text_titles) /\ Len(item.base_text_titles) = 1

\* line 74
IsCategorySpecific(item, t) ==
    \E i \in 1..Len(item.categories) : IsSubstr(t, item.categories[i])

\* line 76, first conjunct
IsDependent(item) ==
    \/ InList("Commentary", item.categories)
    \/ item.dependence = "Commentary"
    \/ InList("Targum", item.categories)

\* mutant: `or` between the dependency test and the target test
QualifiesEither(item, t) ==
    IsDependent(item) \/ IsSpecific(item, t) \/ IsCategorySpecific(item, t)

\* line 76
Qualifies(item, t) ==
    IsDependent(item) /\ (IsSpecific(item, t) \/ IsCategorySpecific(item, t))

\* mutant: en_title or he_title for the commentator too
CommentatorNameEnFirst(item) == IF item.title # "" THEN item.title ELSE item.heTitle

\* line 77: he_title or en_title
CommentatorName(item) == IF item.heTitle # "" THEN item.heTitle ELSE item.title

\* mutant: he_title or en_title for the label too
OwnLabelHeFirst(item) == IF item.heTitle # "" THEN item.heTitle ELSE item.title

\* lines 86, 96, 102: en_title or he_title
OwnLabel(item) == IF item.title # "" THEN item.title ELSE item.heTitle

\* line 86
ItemPath(current_path, item) == Append(current_path, OwnLabel(item))

\* mutant: "Commentary" is looked for first
TypeOfCommentaryFirst(item) ==
    IF InList("Commentary", item.categories) THEN "Commentary" ELSE "Targum"

\* line 98
TypeOf(item) == IF InList("Targum", item.categories) THEN "Targum" ELSE "Commentary"

(***************************************************************************)
(* Lines 90-98: the walk that creates the branch, then the annotation.     *)
(* Reaching a str or a list during the walk raises TypeError whichever way *)
(* the membership test goes (item assignment or str index on a non-dict).  *)
(***************************************************************************)
RECURSIVE WalkCreate(_, _, _)
WalkCreate(t, at, segs) ==
    IF segs = <<>> THEN [tree |-> t, at |-> at, raised |-> FALSE]
    ELSE IF NodeAt(t, at).kind # "dict"
         THEN [tree |-> t, at |-> at, raised |-> TRUE]
         ELSE LET seg == Head(segs)
                  t2 == IF PyIn(seg, t, at) THEN t ELSE DictSet(t, at, seg, Dict)
              IN  WalkCreate(t2, Append(at, seg), Tail(segs))

\* mutant: the path stored is current_path, without the item's own label
AnnotateCurrentPath(t, at, title, item_path, type) ==
    DictSet(DictSet(DictSet(t, at, "title", Str(title)),
                    at, "path", List(SubSeq(item_path, 1, Len(item_path) - 1))),
            at, "type", Str(type))

\* lines 96-98
Annotate(t, at, title, item_path, type) ==
    DictSet(DictSet(DictSet(t, at, "title", Str(title)),
                    at, "path", List(item_path)),
            at, "type", Str(type))

AddToTree(t, item_path, title, type) ==
    LET w == WalkCreate(t, <<>>, item_path)
    IN  IF w.raised \/ NodeAt(w.tree, w.at).kind # "dict"
        THEN [tree |-> w.tree, raised |-> TRUE]
        ELSE [tree |-> Annotate(w.tree, w.at, title, item_path, type),
              raised |-> FALSE]

(***************************************************************************)
(* search_shadow_trees, lines 108-131.                                     *)
(***************************************************************************)
\* lines 116-120: the walk along search_path in one tree
RECURSIVE Resolve(_, _, _)
Resolve(t, at, segs) ==
    IF segs = <<>> THEN [found |-> TRUE, at |-> at, raised |-> FALSE]
    ELSE IF ~PyIn(Head(segs), t, at)
         THEN [found |-> FALSE, at |-> at, raised |-> FALSE]
         ELSE IF NodeAt(t, at).kind # "dict"
              THEN [found |-> TRUE, at |-> at, raised |-> TRUE]
              ELSE Resolve(t, Append(at, Head(segs)), Tail(segs))

\* lines 114-128 for one commentator: the record appended, none, or an error
MatchOne(commentator, t, path) ==
    LET r == Resolve(t, <<>>, path)
    IN  IF r.raised THEN [raised |-> TRUE, match |-> <<>>]
        ELSE IF ~(r.found /\ PyIn("title", t, r.at))
        THEN [raised |-> FALSE, match |-> <<>>]
        ELSE IF \/ NodeAt(t, r.at).kind # "dict"
                \/ Append(r.at, "type") \notin DOMAIN t
                \/ Append(r.at, "path") \notin DOMAIN t
        THEN [raised |-> TRUE, match |-> <<>>]
        ELSE [raised |-> FALSE,
              match |-> << [commentator |-> commentator,
                            title |-> t[Append(r.at, "title")],
                            type |-> t[Append(r.at, "type")],
                            path |-> t[Append(r.at, "path")]] >>]

\* lines 110-131: the loop over shadow_trees.items(), in insertion order
RECURSIVE SearchFrom(_, _, _, _, _)
SearchFrom(trees, order, path, i, acc) ==
    IF i > Len(order) THEN [raised |-> FALSE, results |-> acc]
    ELSE LET m == MatchOne(order[i], trees[order[i]], path)
         IN  IF m.raised THEN [raised |-> TRUE, results |-> acc]
             ELSE SearchFrom(trees, order, path, i + 1, acc \o m.match)

\* mutant: the commentators are gone through from the last inserted to the first
SearchShadowTreesReversed(trees, order, path) ==
    SearchFrom(trees, [i \in 1..Len(order) |-> order[Len(order) + 1 - i]], path, 1, <<>>)

SearchShadowTrees(trees, order, path) == SearchFrom(trees, order, path, 1, <<>>)

(***************************************************************************)
(* Tables of contents.  A table of contents maps the position of a node    *)
(* (the child indices from the top level) to the node's fields; a missing  *)
(* field is its default ("" or []).                                        *)
(***************************************************************************)
Item(title, he, cats, dep, btt, desc) ==
    [title |-> title, heTitle |-> he, categories |-> cats, dependence |-> dep,
     base_text_titles |-> btt, enShortDesc |-> desc]

Titles == {"X", "title", ""}
HeTitles == {"A", ""}
CategoryLists == {<<>>, <<"Commentary">>, <<"Targum">>, <<"Targum", "Commentary">>,
                  <<"Tanakh", "Genesis Rabbah">>}
Dependences == {"", "Commentary"}
BaseTextLists == {<<>>, <<"Genesis">>, <<"Genesis", "Exodus">>, <<"Exodus">>}
ShortDescs == {"", "Modern", "Postmodernist", "CONTEMPORARY", "21st-Century",
               "A 20th-century work", "20th century", "Medieval"}
Targets == {"Genesis", "Exodus"}

\* every combination of fields, for a table of contents of one node
AnyItem ==
    {Item(ti, he, c, d, b, sd) :
        ti \in Titles, he \in HeTitles, c \in CategoryLists, d \in Dependences,
        b \in BaseTextLists, sd \in ShortDescs}

\* the nodes of a nested table of contents
NestedItem ==
    { Item("X", "", <<>>, "", <<>>, ""),
      Item("Y", "A", <<"Commentary">>, "", <<"Genesis">>, ""),
      Item("X", "A", <<"Targum", "Commentary">>, "", <<"Genesis">>, ""),
      Item("title", "", <<"Genesis Rabbah">>, "Commentary", <<"Genesis", "Exodus">>, ""),
      Item("Y", "A", <<"Commentary">>, "", <<"Genesis">>, "Postmodernist"),
      Item("", "", <<"Commentary">>, "", <<"Genesis">>, ""),
      Item("", "A", <<"Commentary">>, "", <<"Genesis">>, ""),
      Item("title", "A", <<"Commentary">>, "", <<"Genesis">>, "") }

Parent(p) == SubSeq(p, 1, Len(p) - 1)

\* positions that may be added to the shape s: a first child or a next sibling
Addable(s) ==
    {p \in {Append(q, i) : q \in s \cup {<<>>}, i \in 1..(MaxNodes + 1)} :
        /\ p \notin s
        /\ p[Len(p)] = 1 \/ [p EXCEPT ![Len(p)] = @ - 1] \in s}

RECURSIVE Shapes(_)
Shapes(n) ==
    IF n = 0 THEN {{}}
    ELSE UNION {{s \cup {p} : p \in Addable(s)} : s \in Shapes(n - 1)}

NestedTocs == UNION {[s -> NestedItem] : s \in UNION {Shapes(n) : n \in 2..MaxNodes}}
SingleTocs == [{<<1>>} -> AnyItem] \cup {[s \in {} |-> Item("", "", <<>>, "", <<>>, "")]}

\* len(item["contents"]) of the node at p; the top level for p = <<>>
NumContents(p) == Cardinality({q \in DOMAIN toc : Len(q) = Len(p) + 1 /\ IsPrefix(p, q)})

(***************************************************************************)
(* State machine.                                                          *)
(*   stack         the activations of search_contents: the position whose  *)
(*                 contents are iterated, the index of the next item and   *)
(*                 the current_path argument                               *)
(*   shadow_trees  the dict being built; commentators is its key order     *)
(*   pc            "building", "returned" or "raised" (build_shadow_trees) *)
(*   visited       the positions of the items the loop has processed       *)
(*   classified    the positions of the items that passed line 76          *)
(*   log           the insertions made, in order                           *)
(*   search_*      the last call of search_shadow_trees and its outcome    *)
(***************************************************************************)
Frame(at, i, path) == [at |-> at, i |-> i, current_path |-> path]

Init ==
    /\ \/ toc \in SingleTocs /\ target_title \in Targets
       \/ toc \in NestedTocs /\ target_title = "Genesis"
    /\ stack = << Frame(<<>>, 1, <<>>) >>
    /\ shadow_trees = [a \in {} |-> EmptyTree]
    /\ commentators = <<>>
    /\ pc = "building"
    /\ visited = {}
    /\ classified = {}
    /\ log = <<>>
    /\ search_path = <<>>
    /\ search_pc = "idle"
    /\ results = <<>>
    /\ sel_toc = <<>>
    /\ selected = <<>>
    /\ reading_list = <<>>
    /\ selected_he_to_en = <<>>
    /\ files = <<>>
    /\ hist = <<>>

Top == stack[Len(stack)]
CurPos == Append(Top.at, Top.i)
CurItem == toc[CurPos]
AtItem == pc = "building" /\ Top.i <= NumContents(Top.at)

\* mutant: one path list shared by all activations: the label appended for the
\* item's contents stays in the path its later siblings see
AdvanceSharedPath ==
    [stack EXCEPT ![Len(stack)].i = @ + 1,
                  ![Len(stack)].current_path = Append(@, OwnLabel(CurItem))]

\* the stack after the loop moves to the next item without recursing
Advance == [stack EXCEPT ![Len(stack)].i = @ + 1]
\* lines 101-102: recurse into the contents of the current item, if any
Recurse ==
    IF NumContents(CurPos) > 0
    THEN Append(Advance, Frame(CurPos, 1, Append(Top.current_path, OwnLabel(CurItem))))
    ELSE Advance

\* mutant: the contents of a skipped item are searched all the same
AfterSkipModernDescending == Recurse

\* line 70: continue
AfterSkipModern == Advance

NoSearch == UNCHANGED <<search_path, search_pc, results>> /\ UNCHANGED selection_vars

\* lines 69-70: a modernity keyword in the short description: continue
SkipModern ==
    /\ AtItem
    /\ Excluded(CurItem)
    /\ stack' = AfterSkipModern
    /\ visited' = visited \cup {CurPos}
    /\ UNCHANGED <<toc, target_title, shadow_trees, commentators, pc, classified, log>>
    /\ NoSearch

\* lines 76-79: the item qualifies but has no name: continue
SkipUnnamed ==
    /\ AtItem
    /\ ~Excluded(CurItem)
    /\ Qualifies(CurItem, target_title)
    /\ CommentatorName(CurItem) = ""
    /\ stack' = Advance
    /\ visited' = visited \cup {CurPos}
    /\ classified' = classified \cup {CurPos}
    /\ UNCHANGED <<toc, target_title, shadow_trees, commentators, pc, log>>
    /\ NoSearch

\* lines 76-102: the item qualifies and is filed under its commentator
Classify ==
    /\ AtItem
    /\ ~Excluded(CurItem)
    /\ Qualifies(CurItem, target_title)
    /\ CommentatorName(CurItem) # ""
    /\ LET name == CommentatorName(CurItem)
           known == name \in DOMAIN shadow_trees
           old == IF known THEN shadow_trees[name] ELSE EmptyTree
           item_path == ItemPath(Top.current_path, CurItem)
           r == AddToTree(old, item_path, OwnLabel(CurItem), TypeOf(CurItem))
       IN  /\ shadow_trees' = [a \in DOMAIN shadow_trees \cup {name} |->
                                  IF a = name THEN r.tree ELSE shadow_trees[a]]
           /\ commentators' = IF known THEN commentators ELSE Append(commentators, name)
           /\ log' = Append(log, [pos |-> CurPos, commentator |-> name,
                                  item_path |-> item_path, raised |-> r.raised])
           /\ IF r.raised
              THEN pc' = "raised" /\ stack' = stack
              ELSE pc' = pc /\ stack' = Recurse
    /\ visited' = visited \cup {CurPos}
    /\ classified' = classified \cup {CurPos}
    /\ UNCHANGED <<toc, target_title>>
    /\ NoSearch

\* lines 76, 100-102: the item does not qualify; its contents are searched
PassOver ==
    /\ AtItem
    /\ ~Excluded(CurItem)
    /\ ~Qualifies(CurItem, target_title)
    /\ stack' = Recurse
    /\ visited' = visited \cup {CurPos}
    /\ UNCHANGED <<toc, target_title, shadow_trees, commentators, pc, classified, log>>
    /\ NoSearch

\* line 60: the loop over contents ends and search_contents returns
Return ==
    /\ pc = "building"
    /\ Top.i > NumContents(Top.at)
    /\ IF Len(stack) > 1
       THEN stack' = SubSeq(stack, 1, Len(stack) - 1) /\ pc' = pc
       ELSE stack' = stack /\ pc' = "returned"
    /\ UNCHANGED <<toc, target_title, shadow_trees, commentators, visited,
                   classified, log>>
    /\ NoSearch

SearchSegments == {"X", "title", "path"}
SearchPaths == UNION {[1..n -> SearchSegments] : n \in 0..MaxSearchLen}

\* main, lines 197-202: one call search_shadow_trees(shadow_trees, path) on the
\* forest that build_shadow_trees returned
Search ==
    /\ pc = "returned"
    /\ search_pc = "idle"
    /\ \E path \in SearchPaths :
          LET r == SearchShadowTrees(shadow_trees, commentators, path)
          IN  /\ search_path' = path
              /\ search_pc' = IF r.raised THEN "raised" ELSE "returned"
              /\ results' = IF r.raised THEN <<>> ELSE r.results
    /\ UNCHANGED <<toc, target_title, stack, shadow_trees, commentators, pc,
                   visited, classified, log>>
    /\ UNCHANGED selection_vars

Next ==
    \/ SkipModern
    \/ SkipUnnamed
    \/ Classify
    \/ PassOver
    \/ Return
    \/ Search

Spec == Init /\ [][Next]_vars

(***************************************************************************)
(* Properties.                                                             *)
(***************************************************************************)
Last(q) == q[Len(q)]
LogIdx == 1..Len(log)
LastIns == log[Len(log)]
IsDescendant(p, q) == IsPrefix(p, q) /\ p # q

\* the short descriptions that hold a modernity keyword in some letter case
ModernDescs == {"Modern", "Postmodernist", "CONTEMPORARY", "21st-Century",
                "A 20th-century work"}

\* the positions of the items build_shadow_trees has filed
InsertedPos == {log[i].pos : i \in LogIdx}

\* the nodes of commentator a's tree that carry a title annotation: the key
\* paths of the dicts in which line 96 stored a title string
Annotated(a) ==
    {Parent(k) : k \in {q \in DOMAIN shadow_trees[a] :
                           Last(q) = "title" /\ shadow_trees[a][q].kind = "str"}}

\* an excluded item with a descendant that passes every test and has a title
ExcludedWithQualifyingDescendant(p, q) ==
    /\ toc[p].enShortDesc \in ModernDescs
    /\ IsDescendant(p, q)
    /\ toc[q].enShortDesc \notin ModernDescs
    /\ Qualifies(toc[q], target_title)
    /\ toc[q].title # ""

\* C1 as stated: once build_shadow_trees has returned, every descendant of an
\* excluded node that passes the exclusion, dependency and target tests and has
\* a non-empty title has been inserted, under a path that holds the excluded
\* node's label.
C1_DescendantsOfExcludedInserted ==
    pc = "returned" =>
        \A p \in DOMAIN toc : \A q \in DOMAIN toc :
            ExcludedWithQualifyingDescendant(p, q) =>
                \E i \in LogIdx : /\ log[i].pos = q
                                  /\ InList(OwnLabel(toc[p]), log[i].item_path)

\* C1 amended: a node whose short description holds a modernity keyword is
\* skipped together with its whole subtree: none of its descendants is
\* visited, and none is inserted into the forest.
C1_ExcludedSubtreeSkipped ==
    \A p \in DOMAIN toc : \A q \in DOMAIN toc :
        (toc[p].enShortDesc \in ModernDescs /\ IsDescendant(p, q)) =>
            q \notin visited /\ q \notin InsertedPos

C1_Witness ==
    /\ pc = "returned"
    /\ \E p \in visited : \E q \in DOMAIN toc : ExcludedWithQualifyingDescendant(p, q)

\* the terminal made by the latest insertion: its key path ends in label, and
\* so does the path list stored in it
LastInsertedUnder(label) ==
    LET t == shadow_trees[LastIns.commentator]
        n == LastIns.item_path
    IN  /\ n \in Annotated(LastIns.commentator)
        /\ Last(n) = label
        /\ Append(n, "path") \in DOMAIN t
        /\ t[Append(n, "path")].kind = "list"
        /\ Last(t[Append(n, "path")].l) = label

\* C2 as stated: the last segment of the insertion path, and of the stored
\* path, of an inserted node is its heTitle if non-empty, else its title.
C2_LastSegmentPrefersHeTitle ==
    (log # <<>> /\ ~LastIns.raised) =>
        LET it == toc[LastIns.pos]
        IN  LastInsertedUnder(IF it.heTitle # "" THEN it.heTitle ELSE it.title)

\* C2 amended: the last segment of the insertion path, and of the stored path,
\* of an inserted node is its title if non-empty, and its heTitle otherwise.
C2_LastSegmentPrefersTitle ==
    (log # <<>> /\ ~LastIns.raised) =>
        LET it == toc[LastIns.pos]
        IN  LastInsertedUnder(IF it.title # "" THEN it.title ELSE it.heTitle)

C2_Witness ==
    /\ log # <<>>
    /\ ~LastIns.raised
    /\ toc[LastIns.pos].title # ""
    /\ toc[LastIns.pos].heTitle # ""
    /\ Len(LastIns.item_path) = 1

\* C3: in a forest returned by build_shadow_trees, every node that carries a
\* title annotation stores as its path the sequence of keys that leads to it
\* from the root of its commentator's tree.
C3_StoredPathIsKeyPath ==
    pc = "returned" =>
        \A a \in DOMAIN shadow_trees : \A n \in Annotated(a) :
            /\ Append(n, "path") \in DOMAIN shadow_trees[a]
            /\ shadow_trees[a][Append(n, "path")] = List(n)

C3_Witness ==
    /\ pc = "returned"
    /\ \E a \in DOMAIN shadow_trees : \E n \in Annotated(a) : Len(n) >= 2

\* the commentators for which the call of search_shadow_trees returned a match
Matched == {results[i].commentator : i \in 1..Len(results)}

\* C4: search_shadow_trees returns a match for a commentator if and only if
\* the whole search path resolves in the commentator's tree and the node
\* reached carries a title annotation.
C4_MatchIffTerminal ==
    search_pc # "idle" =>
        \A a \in DOMAIN shadow_trees : a \in Matched <=> search_path \in Annotated(a)

\* the dependency test, as the claims state it
DependentWork(it) ==
    \/ InList("Commentary", it.categories)
    \/ InList("Targum", it.categories)
    \/ it.dependence = "Commentary"

\* a category of the node contains the target as a substring
CategoryNamesTarget(it) ==
    \E i \in 1..Len(it.categories) : IsSubstr(target_title, it.categories[i])

\* C5: a node that passes the exclusion and dependency tests satisfies the
\* test of line 76 when its base_text_titles is exactly [target]; when it
\* holds the target and another title, it satisfies that test if and only if
\* one of its categories contains the target as a substring.  Every such node
\* the traversal processes takes the classifying branch accordingly.
C5_SingleTargetPrecision ==
    \A p \in DOMAIN toc :
        LET it == toc[p]
            b == it.base_text_titles
        IN  (it.enShortDesc \notin ModernDescs /\ DependentWork(it)) =>
                /\ b = <<target_title>> =>
                       /\ Qualifies(it, target_title)
                       /\ p \in visited => p \in classified
                /\ (InList(target_title, b) /\ Len(b) > 1) =>
                       /\ Qualifies(it, target_title) <=> CategoryNamesTarget(it)
                       /\ p \in visited =>
                              (p \in classified <=> CategoryNamesTarget(it))

C5_Witness ==
    \E p \in visited :
        /\ toc[p].enShortDesc \notin ModernDescs
        /\ DependentWork(toc[p])
        /\ InList(target_title, toc[p].base_text_titles)
        /\ Len(toc[p].base_text_titles) > 1
        /\ p \in classified

\* C6: a node whose short description holds a modernity keyword, in any letter
\* case and also inside a longer word, is never classified and never inserted.
C6_ModernNeverTerminal ==
    \A p \in DOMAIN toc :
        toc[p].enShortDesc \in ModernDescs =>
            /\ p \notin classified
            /\ p \notin InsertedPos
            /\ Cardinality(DOMAIN toc) = 1 => DOMAIN shadow_trees = {}

C6_Witness ==
    /\ pc = "returned"
    /\ \E p \in visited :
          /\ toc[p].enShortDesc = "Postmodernist"
          /\ DependentWork(toc[p])
          /\ toc[p].base_text_titles = <<target_title>>
          /\ toc[p].heTitle # ""

\* C7: a node is inserted only if its categories hold "Commentary" or "Targum"
\* or its dependence is "Commentary"; when no node of the table of contents is
\* such a dependent work the forest stays empty.
C7_OnlyDependentWorksInserted ==
    /\ \A p \in InsertedPos : DependentWork(toc[p])
    /\ (\A p \in DOMAIN toc : ~DependentWork(toc[p])) => DOMAIN shadow_trees = {}

C7_Witness ==
    /\ pc = "returned"
    /\ \E p \in visited :
          /\ toc[p].categories = <<>>
          /\ toc[p].dependence = ""
          /\ toc[p].base_text_titles = <<target_title>>
          /\ toc[p].enShortDesc = ""
          /\ toc[p].title # ""

\* C8: the type written on the terminal of an inserted node is "Targum" (the
\* translation kind) exactly when "Targum" is among the node's categories,
\* and "Commentary" otherwise.
C8_KindFollowsTargum ==
    (log # <<>> /\ ~LastIns.raised) =>
        LET t == shadow_trees[LastIns.commentator]
            k == Append(LastIns.item_path, "type")
            cats == toc[LastIns.pos].categories
        IN  /\ k \in DOMAIN t
            /\ t[k] = Str(IF \E i \in 1..Len(cats) : cats[i] = "Targum"
                          THEN "Targum" ELSE "Commentary")

C8_Witness ==
    /\ log # <<>>
    /\ ~LastIns.raised
    /\ InList("Targum", toc[LastIns.pos].categories)
    /\ InList("Commentary", toc[LastIns.pos].categories)

\* the author key the claims give a node: heTitle if non-empty, else title
AuthorKey(it) == IF it.heTitle # "" THEN it.heTitle ELSE it.title

\* C9: a node is inserted under its heTitle when that is non-empty and under
\* its title otherwise; a node with both empty is not inserted, and the empty
\* string is never a key of the forest.
C9_AuthorKey ==
    /\ "" \notin DOMAIN shadow_trees
    /\ DOMAIN shadow_trees = {AuthorKey(toc[p]) : p \in InsertedPos}
    /\ \A i \in 1..Len(commentators) : commentators[i] \in DOMAIN shadow_trees
    /\ \A p \in DOMAIN toc :
          (toc[p].title = "" /\ toc[p].heTitle = "") => p \notin InsertedPos
    /\ (log # <<>> /\ ~LastIns.raised) =>
          LastIns.item_path \in Annotated(AuthorKey(toc[LastIns.pos]))

C9_Witness ==
    /\ pc = "returned"
    /\ \E p \in classified : toc[p].title = "" /\ toc[p].heTitle = ""
    /\ \E p \in InsertedPos : toc[p].title # "" /\ toc[p].heTitle # ""

\* insertions i and j of one commentator, made in different subtrees
SameAuthorApart(i, j) ==
    /\ i # j
    /\ log[i].commentator = log[j].commentator
    /\ ~IsPrefix(log[i].pos, log[j].pos)
    /\ ~IsPrefix(log[j].pos, log[i].pos)

\* C10: when nodes of different subtrees have the same author, all of them are
\* in that author's one tree once build_shadow_trees has returned: the
\* insertion path of each still resolves, by search_shadow_trees, to a
\* terminal of that author.
C10_SameAuthorInsertionsResolve ==
    pc = "returned" =>
        \A i \in LogIdx : \A j \in LogIdx :
            SameAuthorApart(i, j) =>
                LET r == SearchShadowTrees(shadow_trees, commentators, log[i].item_path)
                IN  /\ ~r.raised
                    /\ \E k \in 1..Len(r.results) :
                          r.results[k].commentator = log[i].commentator

\* C11: search_shadow_trees never ends in an error, whatever the forest
\* build_shadow_trees returned and whatever the search path; when no
\* commentator matches it returns the empty list.
C11_SearchNeverRaises ==
    /\ search_pc # "raised"
    /\ (search_pc = "returned" /\ \A a \in DOMAIN shadow_trees : search_path \notin Annotated(a))
           => results = <<>>

\* p comes before q in the depth-first pre-order of the table of contents
PreOrderBefore(p, q) ==
    /\ p # q
    /\ \/ IsPrefix(p, q)
       \/ \E k \in 1..Len(p) :
             /\ k <= Len(q)
             /\ SubSeq(p, 1, k - 1) = SubSeq(q, 1, k - 1)
             /\ p[k] < q[k]

\* the first node, in pre-order, that was inserted under author key a
FirstInserted(a) ==
    CHOOSE p \in InsertedPos :
        /\ AuthorKey(toc[p]) = a
        /\ \A q \in InsertedPos :
              AuthorKey(toc[q]) = a => (q = p \/ PreOrderBefore(p, q))

\* C12: the records search_shadow_trees returns follow the order in which
\* their commentators were first inserted, that is the pre-order position of
\* the first inserted node of each; no commentator has two records.
C12_ResultsInInsertionOrder ==
    search_pc = "returned" =>
        /\ \A i \in 1..Len(results) : \A j \in 1..Len(results) :
              i < j => PreOrderBefore(FirstInserted(results[i].commentator),
                                      FirstInserted(results[j].commentator))
        /\ \A i \in LogIdx : \A j \in LogIdx :
              i < j => PreOrderBefore(log[i].pos, log[j].pos)

C12_Witness ==
    /\ search_pc = "returned"
    /\ Len(results) >= 2

\* the labels of the nodes on the way from the top level down to position p
LabelsDownTo(p) ==
    [k \in 1..Len(p) |->
        LET it == toc[SubSeq(p, 1, k)]
        IN  IF it.title # "" THEN it.title ELSE it.heTitle]

\* C14: the path recorded for a classified node is the labels of its
\* ancestors from the top level down followed by its own label, whatever
\* siblings and subtrees were visited before it; both the insertion path and
\* the path list stored in the terminal.
C14_PathIsAncestorLabels ==
    /\ \A i \in LogIdx : log[i].item_path = LabelsDownTo(log[i].pos)
    /\ (log # <<>> /\ ~LastIns.raised) =>
          LET t == shadow_trees[LastIns.commentator]
              k == Append(LabelsDownTo(LastIns.pos), "path")
          IN  k \in DOMAIN t /\ t[k] = List(LabelsDownTo(LastIns.pos))

\* a node inserted below the top level, after an earlier sibling was visited
C14_Witness ==
    /\ log # <<>>
    /\ ~LastIns.raised
    /\ Len(LastIns.pos) >= 2
    /\ Last(LastIns.pos) >= 2


-----------------------------------------------------------------------------
\* BookSelectionTab (book_selection.py): the selection flags of the table of
\* contents, the reading list and the files it saves and loads.

\* an item of self.toc: he_title is item.get("heTitle", item.get("heCategory", ""))
\* and en_title is item.get("title", item.get("category", ""))
TocItem(he, en) == [he_title |-> he, en_title |-> en]

\* two items of the same Hebrew name, one without an English name, one
\* without a Hebrew name
TocItems ==
    { TocItem("he1", "en1"), TocItem("he1", "en2"),
      TocItem("he2", ""), TocItem("", "en2") }

SelectionTocs ==
    UNION { UNION { [s -> TocItems] : s \in Shapes(n) } : n \in 1..MaxItems }

FileNames == {"book_selection.json", "list.json"}

EmptyDict == [h \in {} |-> ""]

NoFile == [exists |-> FALSE, reading_list |-> <<>>, he_to_en |-> EmptyDict]

FileOf(rl, h2e) == [exists |-> TRUE, reading_list |-> rl, he_to_en |-> h2e]

AllUnselected == [p \in DOMAIN sel_toc |-> FALSE]

Hist(op, item, checked, before, by_updates, round_trip, file) ==
    [op |-> op, item |-> item, checked |-> checked, before |-> before,
     by_updates |-> by_updates, round_trip |-> round_trip, file |-> file,
     ops |-> hist.ops + 1]

\* the first item, in the order the loops visit the items, of Hebrew name he
FirstWithHeTitle(he) ==
    CHOOSE p \in DOMAIN sel_toc :
        /\ sel_toc[p].he_title = he
        /\ \A q \in DOMAIN sel_toc :
              sel_toc[q].he_title = he => (q = p \/ PreOrderBefore(p, q))

\* add_tree_item: an item is shown in the tree when it and all the items
\* above it have a display text
InTree(p) ==
    \A k \in 1..Len(p) : sel_toc[SubSeq(p, 1, k)].he_title # ""

\* update_toc_selection: the flag of the first item of the Hebrew name
\* target_he_title becomes target_selected
UpdateTocSelection(target_he_title, target_selected) ==
    [selected EXCEPT ![FirstWithHeTitle(target_he_title)] = target_selected]

\* get_category_path: the Hebrew names from the top level down to the first
\* item of the Hebrew name of the item at p
GetCategoryPath(p) ==
    LET q == FirstWithHeTitle(sel_toc[p].he_title)
    IN  [k \in 1..Len(q) |-> sel_toc[SubSeq(q, 1, k)].he_title]

HasNames(he_title, en_title) == he_title # "" /\ en_title # ""

NotSeenAlways(he_title, en_title, unique_items) == TRUE

NotSeen(he_title, en_title, unique_items) ==
    <<he_title, en_title>> \notin unique_items

DictPut(d, k, v) == [x \in DOMAIN d \union {k} |-> IF x = k THEN v ELSE d[x]]

\* collect_selections over the items todo, in the order of the loops
RECURSIVE CollectSelections(_, _, _, _)
CollectSelections(todo, rl, h2e, unique_items) ==
    IF todo = {} THEN [reading_list |-> rl, selected_he_to_en |-> h2e]
    ELSE
        LET p == CHOOSE x \in todo :
                     \A y \in todo : y = x \/ PreOrderBefore(x, y)
            he_title == sel_toc[p].he_title
            en_title == sel_toc[p].en_title
            categories == GetCategoryPath(p)
            item_dict == [he_title |-> he_title, en_title |-> en_title,
                          categories |-> SubSeq(categories, 1, Len(categories) - 1)]
        IN  IF /\ selected[p]
               /\ HasNames(he_title, en_title)
               /\ NotSeen(he_title, en_title, unique_items)
            THEN CollectSelections(todo \ {p}, Append(rl, item_dict),
                                   DictPut(h2e, he_title, en_title),
                                   unique_items \union {<<he_title, en_title>>})
            ELSE CollectSelections(todo \ {p}, rl, h2e, unique_items)

Collected == CollectSelections(DOMAIN sel_toc, <<>>, EmptyDict, {})

\* mark_selections of load_selection
MarkSelections(he_to_en) ==
    [p \in DOMAIN sel_toc |-> sel_toc[p].he_title \in DOMAIN he_to_en]

\* the tab as constructed with no book_selection.json on disk
SelectionInit ==
    /\ sel_toc \in SelectionTocs
    /\ selected = AllUnselected
    /\ reading_list = <<>>
    /\ selected_he_to_en = EmptyDict
    /\ files = [f \in FileNames |-> NoFile]
    /\ hist = [op |-> "init", item |-> <<>>, checked |-> FALSE,
               before |-> AllUnselected, by_updates |-> TRUE,
               round_trip |-> FALSE, file |-> "", ops |-> 0]
    /\ toc = <<>>
    /\ target_title = ""
    /\ stack = <<>>
    /\ shadow_trees = <<>>
    /\ commentators = <<>>
    /\ pc = "done"
    /\ visited = {}
    /\ classified = {}
    /\ log = <<>>
    /\ search_path = <<>>
    /\ search_pc = "idle"
    /\ results = <<>>

MoreOps == hist.ops < MaxOps

\* update_selection for the tree item of the item at p, whose check state
\* is checked
UpdateSelection ==
    \E p \in DOMAIN sel_toc, checked \in BOOLEAN :
        /\ MoreOps
        /\ InTree(p)
        /\ selected' = UpdateTocSelection(sel_toc[p].he_title, checked)
        /\ hist' = Hist("update_selection", p, checked, selected,
                        hist.by_updates, FALSE, "")
        /\ UNCHANGED <<sel_toc, reading_list, selected_he_to_en, files>>
        /\ UNCHANGED title_vars

SaveSelection ==
    /\ MoreOps
    /\ reading_list' = Collected.reading_list
    /\ selected_he_to_en' = Collected.selected_he_to_en
    /\ files' = [files EXCEPT !["book_selection.json"] =
                    FileOf(reading_list', selected_he_to_en')]
    /\ hist' = Hist("save_selection", <<>>, FALSE, selected,
                    hist.by_updates, FALSE, "book_selection.json")
    /\ UNCHANGED <<sel_toc, selected>>
    /\ UNCHANGED title_vars

\* save_selection_as with a file name chosen in the dialog
SaveSelectionAs ==
    \E file_name \in FileNames :
        /\ MoreOps
        /\ reading_list' = Collected.reading_list
        /\ selected_he_to_en' = Collected.selected_he_to_en
        /\ files' = [files EXCEPT ![file_name] =
                        FileOf(reading_list', selected_he_to_en')]
        /\ hist' = Hist("save_selection_as", <<>>, FALSE, selected,
                        hist.by_updates, FALSE, file_name)
        /\ UNCHANGED <<sel_toc, selected>>
        /\ UNCHANGED title_vars

\* save_selection_as with the dialog cancelled
SaveSelectionAsCancelled ==
    /\ MoreOps
    /\ hist' = Hist("save_selection_as_cancelled", <<>>, FALSE, selected,
                    hist.by_updates, FALSE, "")
    /\ UNCHANGED <<sel_toc, selected, reading_list, selected_he_to_en, files>>
    /\ UNCHANGED title_vars

\* load_selection of an existing file
LoadSelection ==
    \E file_name \in FileNames :
        /\ MoreOps
        /\ files[file_name].exists
        /\ reading_list' = files[file_name].reading_list
        /\ selected_he_to_en' = files[file_name].he_to_en
        /\ selected' = MarkSelections(selected_he_to_en')
        /\ hist' = Hist("load_selection", <<>>, FALSE,
                        selected, FALSE,
                        /\ hist.op = "save_selection_as"
                        /\ hist.file = file_name
                        /\ hist.by_updates,
                        file_name)
        /\ UNCHANGED <<sel_toc, files>>
        /\ UNCHANGED title_vars

\* load_selection with the dialog cancelled, or of a file that cannot be read
LoadSelectionNothing ==
    \E file_name \in FileNames \union {""} :
        /\ MoreOps
        /\ file_name # "" => ~files[file_name].exists
        /\ hist' = Hist("load_selection_nothing", <<>>, FALSE, selected,
                        hist.by_updates, FALSE, file_name)
        /\ UNCHANGED <<sel_toc, selected, reading_list, selected_he_to_en, files>>
        /\ UNCHANGED title_vars

ClearSelection ==
    /\ MoreOps
    /\ reading_list' = <<>>
    /\ selected_he_to_en' = EmptyDict
    /\ selected' = AllUnselected
    /\ files' = [files EXCEPT !["book_selection.json"] = FileOf(<<>>, EmptyDict)]
    /\ hist' = Hist("clear_selection", <<>>, FALSE, selected, FALSE, FALSE,
                    "book_selection.json")
    /\ UNCHANGED sel_toc
    /\ UNCHANGED title_vars

SelectionNext ==
    \/ UpdateSelection
    \/ SaveSelection
    \/ SaveSelectionAs
    \/ SaveSelectionAsCancelled
    \/ LoadSelection
    \/ LoadSelectionNothing
    \/ ClearSelection

SelectionSpec == SelectionInit /\ [][SelectionNext]_vars


-----------------------------------------------------------------------------
\* Properties of the selection tab

Saved == hist.op \in {"save_selection", "save_selection_as"}

ListIdx == 1..Len(reading_list)

\* C13: after save_selection, or save_selection_as with a file name, no two
\* entries of reading_list have the same (he_title, en_title) pair, every
\* entry is the pair of names of a selected item whose names are both
\* non-empty, and the keys of selected_he_to_en are the he_title values of
\* reading_list.
C13_ReadingListOfSelected ==
    Saved =>
        /\ \A i, j \in ListIdx :
              (/\ reading_list[i].he_title = reading_list[j].he_title
               /\ reading_list[i].en_title = reading_list[j].en_title) => i = j
        /\ \A i \in ListIdx :
              /\ reading_list[i].he_title # ""
              /\ reading_list[i].en_title # ""
              /\ \E p \in DOMAIN sel_toc :
                    /\ selected[p]
                    /\ sel_toc[p].he_title = reading_list[i].he_title
                    /\ sel_toc[p].en_title = reading_list[i].en_title
        /\ DOMAIN selected_he_to_en = {reading_list[i].he_title : i \in ListIdx}

\* a save with two selected items of the same pair of names
C13_Witness ==
    /\ Saved
    /\ reading_list # <<>>
    /\ \E p, q \in DOMAIN sel_toc :
          /\ p # q
          /\ selected[p]
          /\ selected[q]
          /\ sel_toc[p] = sel_toc[q]


\* C15: update_selection for a tree item sets the selected flag of that
\* very item to the check state of the tree item and leaves the flag of
\* every other item as it was, one of the same Hebrew name included.
C15_UpdatesThatItemOnly ==
    hist.op = "update_selection" =>
        selected = [hist.before EXCEPT ![hist.item] = hist.checked]

\* C16: from flags set by update_selection calls alone, save_selection_as to
\* a file followed by load_selection of the same file leaves the selected
\* flag of every item as it was before the save.
C16_SaveLoadRoundTrip ==
    hist.round_trip => selected = hist.before


=============================================================================
